---- MODULE Spec2Model ----
(***************************************************************************)
(* Model of combadge's binding engine:                                     *)
(*   - core/binder.py: bind / bind_class (memoised by lru_cache), _wrap,   *)
(*     _enumerate_methods, Signature.from_method;                          *)
(*   - support/httpx/backends/async_.py: HttpxBackend.__call__ and the     *)
(*     bound_method produced by HttpxBackend.bind_method.                  *)
(* The module holds four specifications over one set of variables:         *)
(*   SpecCache   - sequential bind() calls against the memoisation table;  *)
(*   SpecThreads - two threads calling bind_class concurrently;            *)
(*   SpecBuild   - the body of bind_class building one implementation;     *)
(*   SpecCall    - one asynchronous bound method call after another.       *)
(***************************************************************************)
EXTENDS Integers, Sequences, FiniteSets, TLC

VARIABLES
    cache,      \* lru_cache of bind_class: <<[key, cls]>>, least recently used first
    builds,     \* per pair, how many times the body of bind_class ran for it
    fresh,      \* how many of the other (interface, binder) pairs were bound so far
    lastKey,    \* pair of the most recent bind() call (<<>> before the first)
    lastRet,    \* class that call returned
    trackedRet, \* class returned by the most recent bind() of Tracked (<<>>: none yet)
    prevRet,    \* when lastKey = Tracked: what the bind() of Tracked before it returned
    gap,        \* when lastKey = Tracked: distinct other pairs bound between the two
    since       \* distinct other pairs bound since the most recent bind() of Tracked

VARIABLES
    tpc,        \* per thread: "idle", "body" (running bind_class's body), "store", "done"
    tkey,       \* per thread: the pair its bind_class call was made with
    tcls,       \* per thread: the class its run of the body created (<<>>: none)
    tret,       \* per thread: the class its call returned (<<>>: not returned yet)
    thit,       \* per thread: whether its call was answered from the cache
    tcalls,     \* per thread: calls made so far
    firstWrite, \* per pair: the class of the first result handed to the cache for it
    lastWrite   \* per pair: the class of the latest result handed to the cache for it

VARIABLES
    iface,       \* from_protocol: its members as inspect.getmembers lists them
    bpc,         \* bind_class's body: "start", "loop", "done"
    todo,        \* the methods _enumerate_methods has still to yield
    installed,   \* name -> callable set on BoundService by setattr
    binderCalls  \* name -> calls of method_binder made for that method

VARIABLES
    request_with,  \* the backend's context manager getter (HttpxBackend._request_with)
    cpc,           \* the bound call: "idle", "enter", "wait_enter", "call",
                   \* "wait_transport", "parse", "exit", "returned", "raised"
    called,        \* name of the interface method called ("" when idle)
    args,          \* positional arguments after the service itself
    kwargs,        \* keyword arguments
    request,       \* what build_request returned
    sent,          \* what the client's request() was called with
    invocations,   \* calls of the client's request() made by this call
    response,      \* 0: none yet, -1: the transport raised, else the status code
    decoded,       \* whether _parse_response ran in this call
    result,        \* what the call returned ("" when nothing)
    err,           \* the error the call raised ("" when none)
    pending,       \* the error travelling out of the async with block
    acquisitions,  \* completed __aenter__ of this call
    releases,      \* __aexit__ of this call
    held,          \* request-scoped resources held now
    susp           \* where this call was suspended so far, in order

tableVars == <<cache, builds>>

callVars == <<request_with, cpc, called, args, kwargs, request, sent, invocations,
              response, decoded, result, err, pending, acquisitions, releases, held, susp>>

buildVars == <<iface, bpc, todo, installed, binderCalls>>

callerVars == <<fresh, lastKey, lastRet, trackedRet, prevRet, gap, since>>

threadVars == <<tpc, tkey, tcls, tret, thit, tcalls, firstWrite, lastWrite>>

vars == <<tableVars, callerVars, threadVars, buildVars, callVars>>

\* What the sequential bind() calls leave alone.
OutsideBind == <<threadVars, buildVars, callVars>>

\* What the threads in bind_class leave alone.
OutsideThreads == <<callerVars, buildVars, callVars>>

\* What the body of bind_class leaves alone.
OutsideBuild == <<tableVars, callerVars, threadVars, callVars>>

\* What a bound method call leaves alone.
OutsideCall == <<tableVars, callerVars, threadVars, buildVars>>

(***************************************************************************)
(* The memoisation table: @lru_cache(maxsize=100) on bind_class.           *)
(***************************************************************************)

\* binder.py:59
maxsize == 100

\* Number of other (interface, binder) pairs the caller may bind.
MaxOthers == 101

\* The pair whose identity is followed: interface 0 with binder "a".
Tracked == <<0, "a">>

\* The n-th other pair: <<0,"b">>, <<1,"a">>, <<1,"b">>, <<2,"a">>, ...
OtherKey(n) == <<n \div 2, IF n % 2 = 1 THEN "b" ELSE "a">>

\* Position of key in the cache, 0 when absent (the cache dict lookup).
CacheFind(c, key) ==
    IF \E i \in 1..Len(c) : c[i].key = key
    THEN CHOOSE i \in 1..Len(c) : c[i].key = key
    ELSE 0

\* A hit moves the entry to the most-recently-used end.
LruHit(c, i) ==
    [j \in 1..Len(c) |->
        IF j < i THEN c[j] ELSE IF j < Len(c) THEN c[j + 1] ELSE c[i]]

\* Storing with the capacity test off by one: eviction starts one entry early.
LruStoreEarly(c, key, cls) ==
    IF CacheFind(c, key) # 0 THEN c
    ELSE IF Len(c) >= maxsize - 1 THEN Append(Tail(c), [key |-> key, cls |-> cls])
    ELSE Append(c, [key |-> key, cls |-> cls])

\* Storing overwrites the class of a key that was added meanwhile (last write wins).
LruStoreLastWins(c, key, cls) ==
    IF CacheFind(c, key) # 0
    THEN [c EXCEPT ![CacheFind(c, key)] = [key |-> key, cls |-> cls]]
    ELSE IF Len(c) >= maxsize THEN Append(Tail(c), [key |-> key, cls |-> cls])
    ELSE Append(c, [key |-> key, cls |-> cls])

\* Storing a computed result: a key that was added meanwhile is left as it
\* is; a full cache drops its least recently used entry.
LruStore(c, key, cls) ==
    IF CacheFind(c, key) # 0 THEN c
    ELSE IF Len(c) >= maxsize THEN Append(Tail(c), [key |-> key, cls |-> cls])
    ELSE Append(c, [key |-> key, cls |-> cls])

\* How many BoundService classes were created for key so far.
Built(bs, key) == IF key \in DOMAIN bs THEN bs[key] ELSE 0

\* The class statement of bind_class creates a new class object on every run
\* of the body: the n-th class created for a pair is named <<pair, n>>.
NewClass(bs, key) == <<key, Built(bs, key) + 1>>

CountBuild(bs, key) ==
    [k \in DOMAIN bs \cup {key} |-> IF k = key THEN Built(bs, key) + 1 ELSE bs[k]]

\* bind_class(from_protocol, method_binder) called by one thread with no
\* other thread running: <<returned class, cache', builds'>>.
BindClass(c, bs, key) ==
    LET i == CacheFind(c, key) IN
    IF i # 0 THEN <<c[i].cls, LruHit(c, i), bs>>
    ELSE <<NewClass(bs, key), LruStore(c, key, NewClass(bs, key)), CountBuild(bs, key)>>

\* bind(from_protocol, to_backend) with (from_protocol, to_backend.binder) = Tracked.
BindTracked ==
    LET r == BindClass(cache, builds, Tracked) IN
    /\ cache' = r[2]
    /\ builds' = r[3]
    /\ lastKey' = Tracked
    /\ lastRet' = r[1]
    /\ prevRet' = trackedRet
    /\ gap' = Cardinality(since)
    /\ trackedRet' = r[1]
    /\ since' = {}
    /\ UNCHANGED <<fresh, OutsideBind>>

BindOtherKey(key) ==
    LET r == BindClass(cache, builds, key) IN
    /\ cache' = r[2]
    /\ builds' = r[3]
    /\ lastKey' = key
    /\ lastRet' = r[1]
    /\ prevRet' = <<>>
    /\ gap' = 0
    /\ since' = since \cup {key}
    /\ UNCHANGED <<trackedRet, OutsideBind>>

\* bind() of a pair that was never bound before.
BindFresh ==
    /\ fresh < MaxOthers
    /\ fresh' = fresh + 1
    /\ BindOtherKey(OtherKey(fresh + 1))

\* bind() once more of the other pair bound most recently.
BindRecent ==
    /\ fresh > 0
    /\ UNCHANGED fresh
    /\ BindOtherKey(OtherKey(fresh))

Threads == {"t1", "t2"}

\* No bind_class call is in progress on any thread.
ThreadsIdle ==
    /\ tpc = [t \in Threads |-> "idle"]
    /\ tkey = [t \in Threads |-> <<>>]
    /\ tcls = [t \in Threads |-> <<>>]
    /\ tret = [t \in Threads |-> <<>>]
    /\ thit = [t \in Threads |-> FALSE]
    /\ tcalls = [t \in Threads |-> 0]
    /\ firstWrite = <<>>
    /\ lastWrite = <<>>

\* No bind() call was made yet.
CallerIdle ==
    /\ fresh = 0
    /\ lastKey = <<>>
    /\ lastRet = <<>>
    /\ trackedRet = <<>>
    /\ prevRet = <<>>
    /\ gap = 0
    /\ since = {}

\* asyncnullcontext with an entry that waits.
asyncnullcontext_waits == [name |-> "asyncnullcontext", entry_waits |-> TRUE]

\* The default request_with: entering and leaving it never waits.
asyncnullcontext == [name |-> "asyncnullcontext", entry_waits |-> FALSE]

\* A request_with the caller passes: a limiter (a semaphore) whose entry
\* may have to wait for a free slot and whose exit returns at once.
limiter == [name |-> "limiter", entry_waits |-> TRUE]

NoRequest == [method |-> "", path |-> "", query_params |-> <<>>, headers |-> <<>>]

\* What one call keeps, before the call and after Reset.
CallCleared ==
    /\ cpc = "idle"
    /\ called = ""
    /\ args = <<>>
    /\ kwargs = <<>>
    /\ request = NoRequest
    /\ sent = NoRequest
    /\ invocations = 0
    /\ response = 0
    /\ decoded = FALSE
    /\ result = ""
    /\ err = ""
    /\ pending = ""
    /\ acquisitions = 0
    /\ releases = 0
    /\ susp = <<>>

\* No bound method was called yet on a backend with the default request_with.
CallIdle ==
    /\ request_with = asyncnullcontext
    /\ held = 0
    /\ CallCleared

\* The body of bind_class is not running.
BuildIdle ==
    /\ iface = <<>>
    /\ bpc = "done"
    /\ todo = <<>>
    /\ installed = <<>>
    /\ binderCalls = <<>>

InitCache ==
    /\ cache = <<>>
    /\ builds = <<>>
    /\ CallerIdle
    /\ ThreadsIdle
    /\ BuildIdle
    /\ CallIdle

NextCache == BindTracked \/ BindFresh \/ BindRecent

SpecCache == InitCache /\ [][NextCache]_vars

(***************************************************************************)
(* C1 as stated: any two bind() calls with the same (interface, binder)   *)
(* pair return the same class object, whatever was bound in between.      *)
(***************************************************************************)
C1_SameClassAlways ==
    (lastKey = Tracked /\ prevRet # <<>>) => lastRet = prevRet

(***************************************************************************)
(* C1 amended: two successive, non-overlapping bind() calls with the same *)
(* pair return the same class object when fewer than maxsize (100)        *)
(* distinct other pairs were bound between them.                          *)
(***************************************************************************)
C1_SameClassWithinCapacity ==
    (lastKey = Tracked /\ prevRet # <<>> /\ gap < maxsize) => lastRet = prevRet

\* A second bind() of the pair after exactly maxsize - 1 other pairs got the same class.
C1_Witness ==
    /\ lastKey = Tracked
    /\ prevRet # <<>>
    /\ gap = maxsize - 1
    /\ lastRet = prevRet

(***************************************************************************)
(* Two threads in bind_class.  lru_cache looks the key up and stores the  *)
(* result under its lock; the wrapped body runs between the two without   *)
(* it, so both threads may run the body for the same pair.                *)
(***************************************************************************)

\* Calls each thread may make.
MaxCalls == 2

\* The pairs the threads bind; neither is in the cache at the start.
ThreadKeys == {Tracked, OtherKey(1)}

\* A cache that sequential bind() calls of n other pairs leave behind.
Prefilled(n) == [i \in 1..n |-> [key |-> OtherKey(i + 1), cls |-> <<OtherKey(i + 1), 1>>]]

PrefilledBuilds(n) == [k \in {OtherKey(i + 1) : i \in 1..n} |-> 1]

Recorded(f, key) == IF key \in DOMAIN f THEN f[key] ELSE <<>>

Record(f, key, cls) == [k \in DOMAIN f \cup {key} |-> IF k = key THEN cls ELSE f[k]]

\* The call enters the lru_cache wrapper: the lookup, and on a hit the return.
ThreadCall(t, key) ==
    /\ tpc[t] = "idle"
    /\ tcalls[t] < MaxCalls
    /\ tcalls' = [tcalls EXCEPT ![t] = @ + 1]
    /\ tkey' = [tkey EXCEPT ![t] = key]
    /\ tcls' = [tcls EXCEPT ![t] = <<>>]
    /\ LET i == CacheFind(cache, key) IN
       IF i # 0
       THEN /\ cache' = LruHit(cache, i)
            /\ tret' = [tret EXCEPT ![t] = cache[i].cls]
            /\ thit' = [thit EXCEPT ![t] = TRUE]
            /\ tpc' = [tpc EXCEPT ![t] = "done"]
       ELSE /\ tret' = [tret EXCEPT ![t] = <<>>]
            /\ thit' = [thit EXCEPT ![t] = FALSE]
            /\ tpc' = [tpc EXCEPT ![t] = "body"]
            /\ UNCHANGED cache
    /\ UNCHANGED <<builds, firstWrite, lastWrite, OutsideThreads>>

\* The body of bind_class: a new BoundService class, filled and returned.
ThreadBody(t) ==
    /\ tpc[t] = "body"
    /\ tcls' = [tcls EXCEPT ![t] = NewClass(builds, tkey[t])]
    /\ builds' = CountBuild(builds, tkey[t])
    /\ tpc' = [tpc EXCEPT ![t] = "store"]
    /\ UNCHANGED <<cache, tkey, tret, thit, tcalls, firstWrite, lastWrite, OutsideThreads>>

\* Back in the wrapper: the result is handed to the cache and returned.
ThreadStore(t) ==
    /\ tpc[t] = "store"
    /\ cache' = LruStore(cache, tkey[t], tcls[t])
    /\ tret' = [tret EXCEPT ![t] = tcls[t]]
    /\ tpc' = [tpc EXCEPT ![t] = "done"]
    /\ firstWrite' = IF Recorded(firstWrite, tkey[t]) = <<>>
                     THEN Record(firstWrite, tkey[t], tcls[t]) ELSE firstWrite
    /\ lastWrite' = Record(lastWrite, tkey[t], tcls[t])
    /\ UNCHANGED <<builds, tkey, tcls, thit, tcalls, OutsideThreads>>

\* The caller has its class and may call again.
ThreadReturn(t) ==
    /\ tpc[t] = "done"
    /\ tpc' = [tpc EXCEPT ![t] = "idle"]
    /\ UNCHANGED <<cache, builds, tkey, tcls, tret, thit, tcalls, firstWrite, lastWrite,
                   OutsideThreads>>

InitThreads ==
    /\ ThreadsIdle
    /\ \E n \in {0, maxsize - 1, maxsize} :
        /\ cache = Prefilled(n)
        /\ builds = PrefilledBuilds(n)
    /\ CallerIdle
    /\ BuildIdle
    /\ CallIdle

NextThreads ==
    \/ \E t \in Threads, key \in ThreadKeys : ThreadCall(t, key)
    \/ \E t \in Threads : ThreadBody(t)
    \/ \E t \in Threads : ThreadStore(t)
    \/ \E t \in Threads : ThreadReturn(t)

SpecThreads == InitThreads /\ [][NextThreads]_vars

Entries(key) == {i \in 1..Len(cache) : cache[i].key = key}

CachedClass(key) == cache[CHOOSE i \in Entries(key) : TRUE].cls

(***************************************************************************)
(* C8 as stated, its last-write-wins part: after concurrent bind_class    *)
(* calls with one pair, the cache holds the class of the latest result    *)
(* handed to it for that pair.                                            *)
(***************************************************************************)
C8_LastWriteWins ==
    \A key \in ThreadKeys :
        (Entries(key) # {} /\ Recorded(lastWrite, key) # <<>>)
            => CachedClass(key) = Recorded(lastWrite, key)

(***************************************************************************)
(* C8 amended: under every interleaving of two threads calling bind_class *)
(* with a pair the cache does not hold, each caller gets a class built    *)
(* for the pair it asked for, the cache never exceeds maxsize entries and *)
(* never holds two entries for one pair, after a call the cache holds     *)
(* exactly one entry for its pair, that entry is the class of the FIRST   *)
(* result handed to the cache (a later one is dropped: first write wins), *)
(* and a call answered from the cache returns that cached class.          *)
(***************************************************************************)
C8_ConcurrentBindSafe ==
    /\ Len(cache) <= maxsize
    /\ \A key \in ThreadKeys :
        /\ Cardinality(Entries(key)) <= 1
        /\ Entries(key) # {} => CachedClass(key) = Recorded(firstWrite, key)
    /\ \A t \in Threads :
        tpc[t] = "done" =>
            /\ Cardinality(Entries(tkey[t])) = 1
            /\ tret[t][1] = tkey[t]
            /\ thit[t] => tret[t] = CachedClass(tkey[t])

\* Both threads ran the body for the same pair on a full cache: they hold two
\* different classes and the cache kept the one stored first.
C8_Witness ==
    /\ Len(cache) = maxsize
    /\ tpc["t1"] = "done" /\ tpc["t2"] = "done"
    /\ tkey["t1"] = tkey["t2"]
    /\ ~thit["t1"] /\ ~thit["t2"]
    /\ tret["t1"] # tret["t2"]
    /\ CachedClass(tkey["t1"]) = Recorded(firstWrite, tkey["t1"])
    /\ Recorded(lastWrite, tkey["t1"]) # Recorded(firstWrite, tkey["t1"])

(***************************************************************************)
(* The body of bind_class: one BoundService class built for an interface. *)
(* A callable is written as the sequence of its layers, outermost first:  *)
(* <<"marker", m>> for each method marker wrapped around it, and last the *)
(* callable the method binder returned for the method.                    *)
(***************************************************************************)

\* Longest list of method markers on one method.
MaxMarkers == 2

MarkerKinds == {"http_method", "path"}

MarkerLists == UNION {[1..n -> MarkerKinds] : n \in 0..MaxMarkers}

\* The parameters inspect.signature reports: an instance method, a static
\* helper, and a static helper one of whose parameters is named self.
ParameterLists == {<<"self", "x">>, <<"x">>, <<"x", "self">>}

Method(name, inherited, parameters, markers) ==
    [name |-> name, callable |-> TRUE, inherited |-> inherited,
     parameters |-> parameters, markers |-> markers]

Attribute(name) ==
    [name |-> name, callable |-> FALSE, inherited |-> FALSE,
     parameters |-> <<>>, markers |-> <<>>]

\* Members named "_b" or "__b", "a" and "c": each may be missing.
PrivateChoices ==
    {<<>>} \cup {<<Method(n, i, <<"self", "x">>, <<"path">>)>> :
                    n \in {<<"_", "b">>, <<"_", "_", "b">>}, i \in BOOLEAN}

AChoices ==
    {<<>>} \cup {<<Method(<<"a">>, i, ps, ms)>> :
                    i \in BOOLEAN, ps \in ParameterLists, ms \in MarkerLists}

CChoices ==
    {<<>>, <<Attribute(<<"c">>)>>}
        \cup {<<Method(<<"c">>, i, ps, <<"http_method", "path">>)>> :
                    i \in BOOLEAN, ps \in ParameterLists}

\* inspect.getmembers(of_protocol, callable): the members, own and inherited,
\* sorted by name, that satisfy the predicate.
get_members(members) == SelectSeq(members, LAMBDA m : m.callable)

\* name.startswith("_")
StartsWithUnderscore(name) == Len(name) >= 1 /\ name[1] = "_"

\* "self" in get_signature(method).parameters
HasSelf(method) == \E i \in 1..Len(method.parameters) : method.parameters[i] = "self"

\* _enumerate_methods without the test of the name.
RECURSIVE _enumerate_methods_all_names(_)
_enumerate_methods_all_names(members) ==
    IF members = <<>> THEN <<>>
    ELSE IF ~HasSelf(Head(members)) THEN _enumerate_methods_all_names(Tail(members))
    ELSE <<Head(members)>> \o _enumerate_methods_all_names(Tail(members))

\* _enumerate_methods over the members get_members returned.
RECURSIVE _enumerate_methods_of(_)
_enumerate_methods_of(members) ==
    IF members = <<>> THEN <<>>
    ELSE IF StartsWithUnderscore(Head(members).name)
        THEN _enumerate_methods_of(Tail(members))
    ELSE IF ~HasSelf(Head(members)) THEN _enumerate_methods_of(Tail(members))
    ELSE <<Head(members)>> \o _enumerate_methods_of(Tail(members))

_enumerate_methods(of_protocol) == _enumerate_methods_of(get_members(of_protocol))

\* method_binder(signature): the callable bound for one method.
BoundMethod(name) == <<<<"bound">> \o name>>

\* mark.wrap(method)
MarkWrap(mark, method) == <<<<"marker", mark>>>> \o method

\* _wrap taking the markers from the last to the first.
RECURSIVE _wrap_reversed(_, _)
_wrap_reversed(method, with_marks) ==
    IF with_marks = <<>> THEN method
    ELSE _wrap_reversed(MarkWrap(with_marks[Len(with_marks)], method),
                        SubSeq(with_marks, 1, Len(with_marks) - 1))

RECURSIVE _wrap(_, _)
_wrap(method, with_marks) ==
    IF with_marks = <<>> THEN method
    ELSE _wrap(MarkWrap(Head(with_marks), method), Tail(with_marks))

SetAttr(f, name, value) ==
    [n \in DOMAIN f \cup {name} |-> IF n = name THEN value ELSE f[n]]

CallsOf(name) == IF name \in DOMAIN binderCalls THEN binderCalls[name] ELSE 0

\* class BoundService(BaseBoundService, from_protocol), and the for statement
\* asks _enumerate_methods for the methods.
BuildStart ==
    /\ bpc = "start"
    /\ todo' = _enumerate_methods(iface)
    /\ bpc' = "loop"
    /\ UNCHANGED <<iface, installed, binderCalls, OutsideBuild>>

\* One turn of the loop: the signature, the binder, the wraps, setattr.
BuildMethod ==
    /\ bpc = "loop"
    /\ todo # <<>>
    /\ LET method == Head(todo)
           method_markers == method.markers
           bound_method == BoundMethod(method.name)
       IN /\ binderCalls' = SetAttr(binderCalls, method.name, CallsOf(method.name) + 1)
          /\ installed' = SetAttr(installed, method.name, _wrap(bound_method, method_markers))
    /\ todo' = Tail(todo)
    /\ UNCHANGED <<iface, bpc, OutsideBuild>>

\* _update_bound_service and the return.
BuildFinish ==
    /\ bpc = "loop"
    /\ todo = <<>>
    /\ bpc' = "done"
    /\ UNCHANGED <<iface, todo, installed, binderCalls, OutsideBuild>>

InitBuild ==
    /\ \E p \in PrivateChoices, a \in AChoices, c \in CChoices : iface = p \o a \o c
    /\ bpc = "start"
    /\ todo = <<>>
    /\ installed = <<>>
    /\ binderCalls = <<>>
    /\ cache = <<>>
    /\ builds = <<>>
    /\ CallerIdle
    /\ ThreadsIdle
    /\ CallIdle

NextBuild == BuildStart \/ BuildMethod \/ BuildFinish

SpecBuild == InitBuild /\ [][NextBuild]_vars

Members == {iface[i] : i \in 1..Len(iface)}

MemberNamed(name) == CHOOSE m \in Members : m.name = name

(***************************************************************************)
(* C9: for a method whose Signature lists method markers m1..mn, the      *)
(* callable installed on the class is mn.wrap(...m1.wrap(b)...): n + 1    *)
(* layers, the binder's callable b innermost, marker mi the i-th layer    *)
(* around it (so the last-listed marker is outermost), and the binder was *)
(* called exactly once for the method.                                    *)
(***************************************************************************)
C9_WrapOrder ==
    /\ DOMAIN binderCalls = DOMAIN installed
    /\ \A name \in DOMAIN installed :
        LET f == installed[name]
            ms == MemberNamed(name).markers
        IN /\ Len(f) = Len(ms) + 1
           /\ f[Len(f)] = <<"bound">> \o name
           /\ \A i \in 1..Len(ms) : f[Len(f) - i] = <<"marker", ms[i]>>
           /\ binderCalls[name] = 1

\* The class is built and method a carries two different markers.
C9_Witness ==
    /\ bpc = "done"
    /\ <<"a">> \in DOMAIN installed
    /\ Len(MemberNamed(<<"a">>).markers) = 2
    /\ MemberNamed(<<"a">>).markers[1] # MemberNamed(<<"a">>).markers[2]
    /\ installed[<<"a">>][1] = <<"marker", MemberNamed(<<"a">>).markers[2]>>

(***************************************************************************)
(* C10 as stated, its part on inheritance: a method the interface         *)
(* inherits from a base type is never bound.                              *)
(***************************************************************************)
C10_InheritedNeverBound ==
    \A m \in Members : m.inherited => m.name \notin DOMAIN installed

(***************************************************************************)
(* C10 amended: the built class has a generated implementation for        *)
(* exactly the callable members of the interface, declared on it or       *)
(* inherited from a base type, whose name does not start with an          *)
(* underscore and that have a parameter named self; no other member is    *)
(* bound at any time.                                                     *)
(***************************************************************************)
C10_PublicSelfMethods ==
    LET eligible == {m.name : m \in {x \in Members :
                        /\ x.callable
                        /\ x.name[1] # "_"
                        /\ "self" \in {x.parameters[i] : i \in 1..Len(x.parameters)}}}
    IN /\ DOMAIN installed \subseteq eligible
       /\ bpc = "done" => DOMAIN installed = eligible

\* An inherited public method was bound, and a private, a static and a
\* non-callable member were not.
C10_Witness ==
    /\ bpc = "done"
    /\ \E m \in Members : m.inherited /\ m.name \in DOMAIN installed
    /\ \E m \in Members : m.name[1] = "_" /\ m.name \notin DOMAIN installed
    /\ \E m \in Members : (~m.callable \/ m.parameters = <<"x">>)
                                /\ m.name \notin DOMAIN installed

(***************************************************************************)
(* One asynchronous bound method call after another on a service bound to *)
(* the async HttpxBackend.  The interface is the one of the integration   *)
(* tests (get_anything, get_headers) and a method with two query markers  *)
(* on one parameter (get_tagged).                                         *)
(***************************************************************************)

\* Most positional arguments a caller passes after the service.
MaxArgs == 3

QueryParam(location) == [kind |-> "query", location |-> location]

Header(location) == [kind |-> "header", location |-> location]

Required(name, markers) ==
    [name |-> name, required |-> TRUE, default |-> "", markers |-> markers]

Optional(name, default, markers) ==
    [name |-> name, required |-> FALSE, default |-> default, markers |-> markers]

SupportsHttpbin ==
    [get_anything |->
        [parameters |-> <<Required("self", <<>>),
                          Required("foo", <<QueryParam("foobar")>>),
                          Required("bar", <<QueryParam("foobar")>>)>>,
         http_method |-> "GET", path |-> "/anything", return_type |-> "Response"],
     get_headers |->
        [parameters |-> <<Required("self", <<>>),
                          Required("foo", <<Header("x-foo")>>),
                          Optional("bar", "barval", <<Header("x-bar")>>),
                          Optional("baz", "bazval", <<Header("x-baz")>>)>>,
         http_method |-> "GET", path |-> "/headers", return_type |-> "Response"],
     get_tagged |->
        [parameters |-> <<Required("self", <<>>),
                          Required("tag", <<QueryParam("tag"), QueryParam("label")>>),
                          Optional("page", "1", <<QueryParam("tag")>>)>>,
         http_method |-> "GET", path |-> "/anything", return_type |-> "Response"]]

MethodNames == DOMAIN SupportsHttpbin

\* The argument values a caller passes to a method.
ArgValues(name) ==
    IF name = "get_anything" THEN {"100500", "100501"}
    ELSE IF name = "get_headers" THEN {"fooval"}
    ELSE {"t"}

\* The keywords a caller passes: the method's parameters and one it has not.
KeywordNames(name) ==
    {SupportsHttpbin[name].parameters[i].name :
        i \in 2..Len(SupportsHttpbin[name].parameters)} \cup {"qux"}

\* get_annotations(method): the annotated parameters in the order declared
\* (self has no annotation), then the return annotation.
get_annotations(m) ==
    [i \in 1..Len(m.parameters) |->
        IF i < Len(m.parameters)
        THEN [name |-> m.parameters[i + 1].name, markers |-> m.parameters[i + 1].markers]
        ELSE [name |-> "return", markers |-> <<>>]]

\* The inner loop of _extract_parameter_markers: one item for each marker.
RECURSIVE BoundParameterMarkers(_, _)
BoundParameterMarkers(name, markers) ==
    IF markers = <<>> THEN <<>>
    ELSE <<[name |-> name, marker |-> Head(markers)]>>
            \o BoundParameterMarkers(name, Tail(markers))

\* _extract_parameter_markers going through the annotations from the last.
RECURSIVE _extract_parameter_markers_reversed(_)
_extract_parameter_markers_reversed(from_annotations) ==
    IF from_annotations = <<>> THEN <<>>
    ELSE _extract_parameter_markers_reversed(Tail(from_annotations))
            \o BoundParameterMarkers(Head(from_annotations).name,
                                      Head(from_annotations).markers)

RECURSIVE _extract_parameter_markers(_)
_extract_parameter_markers(from_annotations) ==
    IF from_annotations = <<>> THEN <<>>
    ELSE BoundParameterMarkers(Head(from_annotations).name, Head(from_annotations).markers)
            \o _extract_parameter_markers(Tail(from_annotations))

\* Signature.from_method
from_method(m) ==
    [bind_arguments |-> m.parameters,
     parameter_markers |-> _extract_parameter_markers(get_annotations(m)),
     return_type |-> m.return_type]

ParameterNames(parameters) == {parameters[i].name : i \in 1..Len(parameters)}

\* Whether get_signature(method).bind(*positional, **keywords) raises TypeError.
BindRaises(parameters, positional, keywords) ==
    \/ Len(positional) > Len(parameters)
    \/ \E i \in 1..Len(parameters) :
            i <= Len(positional) /\ parameters[i].name \in DOMAIN keywords
    \/ \E i \in 1..Len(parameters) :
            /\ i > Len(positional)
            /\ parameters[i].required
            /\ parameters[i].name \notin DOMAIN keywords
    \/ \E k \in DOMAIN keywords : k \notin ParameterNames(parameters)

\* The arguments get_signature(method).bind(*positional, **keywords) binds.
BoundArguments(parameters, positional, keywords) ==
    [name \in {parameters[i].name : i \in 1..Len(positional)} \cup DOMAIN keywords |->
        IF name \in DOMAIN keywords THEN keywords[name]
        ELSE positional[CHOOSE i \in 1..Len(positional) : parameters[i].name = name]]

\* A bind that accepts keywords the method does not have.
bind_arguments_lenient(parameters, positional, keywords) ==
    LET known == [k \in DOMAIN keywords \cap ParameterNames(parameters) |-> keywords[k]]
    IN IF BindRaises(parameters, positional, known)
       THEN [raises |-> TRUE, arguments |-> <<>>]
       ELSE [raises |-> FALSE, arguments |-> BoundArguments(parameters, positional, known)]

\* Signature.bind_arguments = get_signature(method).bind
bind_arguments(parameters, positional, keywords) ==
    IF BindRaises(parameters, positional, keywords)
    THEN [raises |-> TRUE, arguments |-> <<>>]
    ELSE [raises |-> FALSE, arguments |-> BoundArguments(parameters, positional, keywords)]

\* BoundArguments.apply_defaults
apply_defaults(parameters, arguments) ==
    [name \in ParameterNames(parameters) |->
        IF name \in DOMAIN arguments THEN arguments[name]
        ELSE parameters[CHOOSE i \in 1..Len(parameters) : parameters[i].name = name].default]

\* A parameter marker placing one value into the request: a query parameter
\* and a header are added after those already there.
ApplyMarker(marker, req, value) ==
    IF marker.kind = "query"
    THEN [req EXCEPT !.query_params = Append(@, <<marker.location, value>>)]
    ELSE [req EXCEPT !.headers = Append(@, <<marker.location, value>>)]

RECURSIVE ApplyMarkers(_, _, _)
ApplyMarkers(parameter_markers, req, all_arguments) ==
    IF parameter_markers = <<>> THEN req
    ELSE ApplyMarkers(Tail(parameter_markers),
                      ApplyMarker(Head(parameter_markers).marker, req,
                                  all_arguments[Head(parameter_markers).name]),
                      all_arguments)

\* build_request(Request, signature, service, args, kwargs)
build_request(m, signature, positional, keywords) ==
    LET bound == bind_arguments(signature.bind_arguments, <<"service">> \o positional, keywords)
    IN IF bound.raises THEN [raises |-> TRUE, request |-> NoRequest]
       ELSE [raises |-> FALSE,
             request |-> ApplyMarkers(
                 signature.parameter_markers,
                 [NoRequest EXCEPT !.method = m.http_method, !.path = m.path],
                 apply_defaults(signature.bind_arguments, bound.arguments))]

Statuses == {200, 302, 404, 500}

\* Response.raise_for_status raising for client and server errors only.
raise_for_status_errors_only(status) == status >= 400

\* Response.raise_for_status: raises unless the status is a success (2xx).
raise_for_status(status) == status \div 100 # 2

\* An error raised inside the async with block skips __aexit__.
RaisedInBlockSkipsExit == "raised"

\* async with: an error raised inside the block goes through __aexit__.
RaisedInBlock == "exit"

\* service.method(*args, **kwargs) is awaited: bound_method builds the request.
CallBoundMethod(name, positional, keywords) ==
    /\ cpc = "idle"
    /\ called' = name
    /\ args' = positional
    /\ kwargs' = keywords
    /\ LET built == build_request(SupportsHttpbin[name], from_method(SupportsHttpbin[name]),
                                  positional, keywords)
       IN IF built.raises
          THEN /\ cpc' = "raised"
               /\ err' = "TypeError"
               /\ UNCHANGED request
          ELSE /\ cpc' = "enter"
               /\ request' = built.request
               /\ UNCHANGED err
    /\ UNCHANGED <<request_with, sent, invocations, response, decoded, result, pending,
                   acquisitions, releases, held, susp, OutsideCall>>

\* async with service.backend._request_with(): __aenter__ returns at once.
EnterContext ==
    /\ cpc = "enter"
    /\ acquisitions' = acquisitions + 1
    /\ held' = held + 1
    /\ cpc' = "call"
    /\ UNCHANGED <<request_with, called, args, kwargs, request, sent, invocations, response,
                   decoded, result, err, pending, releases, susp, OutsideCall>>

\* __aenter__ has to wait: the call is suspended in it.
EnterContextWaits ==
    /\ cpc = "enter"
    /\ request_with.entry_waits
    /\ susp' = Append(susp, "acquire")
    /\ cpc' = "wait_enter"
    /\ UNCHANGED <<request_with, called, args, kwargs, request, sent, invocations, response,
                   decoded, result, err, pending, acquisitions, releases, held, OutsideCall>>

\* The wait in __aenter__ ends: the resource is acquired.
EnterContextResumes ==
    /\ cpc = "wait_enter"
    /\ acquisitions' = acquisitions + 1
    /\ held' = held + 1
    /\ cpc' = "call"
    /\ UNCHANGED <<request_with, called, args, kwargs, request, sent, invocations, response,
                   decoded, result, err, pending, releases, susp, OutsideCall>>

\* The task is cancelled while it waits in __aenter__: nothing was acquired.
CancelledInEnter ==
    /\ cpc = "wait_enter"
    /\ cpc' = "raised"
    /\ err' = "CancelledError"
    /\ UNCHANGED <<request_with, called, args, kwargs, request, sent, invocations, response,
                   decoded, result, pending, acquisitions, releases, held, susp, OutsideCall>>

\* HttpxBackend.__call__ up to its await: the client's request() is called
\* with the method, the path, json and params.
InvokeTransport ==
    /\ cpc = "call"
    /\ invocations' = invocations + 1
    /\ sent' = [method |-> request.method, path |-> request.path,
                query_params |-> request.query_params, headers |-> <<>>]
    /\ susp' = Append(susp, "transport")
    /\ cpc' = "wait_transport"
    /\ UNCHANGED <<request_with, called, args, kwargs, request, response, decoded, result,
                   err, pending, acquisitions, releases, held, OutsideCall>>

\* The client returns a response, and raise_for_status looks at it.
TransportReturns(status) ==
    /\ cpc = "wait_transport"
    /\ response' = status
    /\ IF raise_for_status(status)
       THEN /\ pending' = "HTTPStatusError"
            /\ cpc' = RaisedInBlock
       ELSE /\ cpc' = "parse"
            /\ UNCHANGED pending
    /\ UNCHANGED <<request_with, called, args, kwargs, request, sent, invocations, decoded,
                   result, err, acquisitions, releases, held, susp, OutsideCall>>

\* The client raises (no connection, a timeout of its own).
TransportRaises ==
    /\ cpc = "wait_transport"
    /\ response' = -1
    /\ pending' = "TransportError"
    /\ cpc' = RaisedInBlock
    /\ UNCHANGED <<request_with, called, args, kwargs, request, sent, invocations, decoded,
                   result, err, acquisitions, releases, held, susp, OutsideCall>>

\* The task is cancelled while it waits for the client.
CancelledInTransport ==
    /\ cpc = "wait_transport"
    /\ pending' = "CancelledError"
    /\ cpc' = RaisedInBlock
    /\ UNCHANGED <<request_with, called, args, kwargs, request, sent, invocations, response,
                   decoded, result, err, acquisitions, releases, held, susp, OutsideCall>>

\* self._parse_response(...): the result instance, or a validation error.
ParseResponse(valid) ==
    /\ cpc = "parse"
    /\ decoded' = TRUE
    /\ IF valid
       THEN /\ cpc' = "exit"
            /\ UNCHANGED pending
       ELSE /\ pending' = "ValidationError"
            /\ cpc' = RaisedInBlock
    /\ UNCHANGED <<request_with, called, args, kwargs, request, sent, invocations, response,
                   result, err, acquisitions, releases, held, susp, OutsideCall>>

\* The async with block is left: __aexit__, then the return or the error.
ExitContext ==
    /\ cpc = "exit"
    /\ releases' = releases + 1
    /\ held' = held - 1
    /\ IF pending = ""
       THEN /\ cpc' = "returned"
            /\ result' = from_method(SupportsHttpbin[called]).return_type
            /\ UNCHANGED err
       ELSE /\ cpc' = "raised"
            /\ err' = pending
            /\ UNCHANGED result
    /\ UNCHANGED <<request_with, called, args, kwargs, request, sent, invocations, response,
                   decoded, pending, acquisitions, susp, OutsideCall>>

\* The caller has the result or the error; the next call starts afresh.
Reset ==
    /\ cpc \in {"returned", "raised"}
    /\ cpc' = "idle"
    /\ called' = ""
    /\ args' = <<>>
    /\ kwargs' = <<>>
    /\ request' = NoRequest
    /\ sent' = NoRequest
    /\ invocations' = 0
    /\ response' = 0
    /\ decoded' = FALSE
    /\ result' = ""
    /\ err' = ""
    /\ pending' = ""
    /\ acquisitions' = 0
    /\ releases' = 0
    /\ susp' = <<>>
    /\ UNCHANGED <<request_with, held, OutsideCall>>

InitCall ==
    /\ request_with \in {asyncnullcontext, limiter}
    /\ held = 0
    /\ CallCleared
    /\ cache = <<>>
    /\ builds = <<>>
    /\ CallerIdle
    /\ ThreadsIdle
    /\ BuildIdle

NextCall ==
    \/ \E name \in MethodNames :
        \E positional \in UNION {[1..n -> ArgValues(name)] : n \in 0..MaxArgs} :
        \E names \in SUBSET KeywordNames(name) :
        \E keywords \in [names -> ArgValues(name)] :
            CallBoundMethod(name, positional, keywords)
    \/ EnterContext
    \/ EnterContextWaits
    \/ EnterContextResumes
    \/ CancelledInEnter
    \/ InvokeTransport
    \/ \E status \in Statuses : TransportReturns(status)
    \/ TransportRaises
    \/ CancelledInTransport
    \/ \E valid \in BOOLEAN : ParseResponse(valid)
    \/ ExitContext
    \/ Reset

SpecCall == InitCall /\ [][NextCall]_vars

\* What the caller passed for parameter i of the method called, or its default.
SuppliedOrDefault(i) ==
    LET p == SupportsHttpbin[called].parameters[i]
    IN IF i - 1 <= Len(args) THEN args[i - 1]
       ELSE IF p.name \in DOMAIN kwargs THEN kwargs[p.name]
       ELSE p.default

\* The (location, value) pairs the call owes to the markers of one kind:
\* parameter by parameter as declared, marker by marker on each.
RECURSIVE ExpectedFrom(_, _)
ExpectedFrom(kind, i) ==
    LET ps == SupportsHttpbin[called].parameters
    IN IF i > Len(ps) THEN <<>>
       ELSE LET ms == SelectSeq(ps[i].markers, LAMBDA mk : mk.kind = kind)
            IN [j \in 1..Len(ms) |-> <<ms[j].location, SuppliedOrDefault(i)>>]
                    \o ExpectedFrom(kind, i + 1)

Expected(kind) == ExpectedFrom(kind, 2)

\* The arguments do not fit the parameters: a keyword the method has not,
\* more positional arguments than parameters, or a required parameter unfilled.
BadArguments ==
    LET ps == SupportsHttpbin[called].parameters
    IN \/ \E k \in DOMAIN kwargs : \A i \in 1..Len(ps) : ps[i].name # k
       \/ Len(args) + 1 > Len(ps)
       \/ \E i \in 2..Len(ps) :
            ps[i].required /\ i > Len(args) + 1 /\ ps[i].name \notin DOMAIN kwargs

(***************************************************************************)
(* C2: a call whose arguments do not fit the formal parameters fails with *)
(* the argument-binding error (TypeError), and when that error is raised  *)
(* the transport was not invoked, the request-scoped resource was not     *)
(* acquired and the call was never suspended.                             *)
(***************************************************************************)
C2_ArgumentErrorBeforeTransport ==
    /\ (called # "" /\ BadArguments) => (cpc = "raised" /\ err = "TypeError")
    /\ err = "TypeError" =>
        /\ invocations = 0
        /\ sent = NoRequest
        /\ acquisitions = 0
        /\ releases = 0
        /\ susp = <<>>

\* get_anything was called with a keyword it has not, and nothing else wrong.
C2_Witness ==
    /\ called = "get_anything"
    /\ args = <<>>
    /\ DOMAIN kwargs = {"foo", "bar", "qux"}
    /\ cpc = "raised"
    /\ err = "TypeError"
    /\ invocations = 0

(***************************************************************************)
(* C3: the request the async backend's transport call sends carries one   *)
(* header per header-marked parameter of the method: the argument passed, *)
(* or the parameter's declared default when the argument is omitted.      *)
(***************************************************************************)
C3_HeadersSent ==
    invocations > 0 => sent.headers = Expected("header")

(***************************************************************************)
(* C4: the parameter markers are applied in the order of the parameters   *)
(* as declared and of the markers on each, and markers naming one query   *)
(* location add up: the built request, and the request sent, hold every   *)
(* value under its name in that order.                                    *)
(***************************************************************************)
C4_QueryParamsAccumulateInOrder ==
    /\ cpc \in {"enter", "wait_enter", "call"} => request.query_params = Expected("query")
    /\ invocations > 0 =>
        /\ request.query_params = Expected("query")
        /\ sent.query_params = request.query_params

\* get_anything(foo=100500, bar=100501) reached the transport with both values.
C4_Witness ==
    /\ called = "get_anything"
    /\ args = <<>>
    /\ DOMAIN kwargs = {"foo", "bar"}
    /\ kwargs["foo"] = "100500"
    /\ kwargs["bar"] = "100501"
    /\ invocations = 1
    /\ sent.query_params = <<<<"foobar", "100500">>, <<"foobar", "100501">>>>

\* The transport call raised, or the response has a status outside 2xx.
TransportFailed == response = -1 \/ (response > 0 /\ response \div 100 # 2)

(***************************************************************************)
(* C5: once the transport call raised or returned a non-success status,   *)
(* _parse_response never runs in that call, no result is returned, and    *)
(* the call fails with that transport error.                              *)
(***************************************************************************)
C5_NoDecodingAfterTransportError ==
    TransportFailed =>
        LET error == IF response = -1 THEN "TransportError" ELSE "HTTPStatusError"
        IN /\ ~decoded
           /\ result = ""
           /\ cpc \in {"exit", "raised"}
           /\ cpc = "exit" => pending = error
           /\ cpc = "raised" => err = error

\* A call failed on a 404 and on a redirect without decoding anything.
C5_Witness ==
    /\ cpc = "raised"
    /\ response \in {302, 404}
    /\ err = "HTTPStatusError"
    /\ ~decoded
    /\ result = ""

(***************************************************************************)
(* C6: a call that acquired the request-scoped resource releases it       *)
(* exactly once on every way out (return, transport error, decoding       *)
(* error, cancellation while suspended in the transport); between calls   *)
(* no resource is held; the transport runs only while it is held.         *)
(***************************************************************************)
C6_ScopedResourceReleased ==
    /\ releases <= acquisitions
    /\ acquisitions <= 1
    /\ held = acquisitions - releases
    /\ cpc \in {"idle", "returned", "raised"} => (held = 0 /\ releases = acquisitions)
    /\ cpc \in {"wait_transport", "parse"} => held = 1
    /\ invocations > 0 => acquisitions = 1

\* A call cancelled in the transport has released what it acquired.
C6_Witness ==
    /\ cpc = "raised"
    /\ err = "CancelledError"
    /\ invocations = 1
    /\ acquisitions = 1
    /\ releases = 1
    /\ held = 0

====
